---- MODULE Spec2Model ----
(***************************************************************************)
(* The cooperative round-robin runtime of user/src/bin/runtime.rs:         *)
(* Runtime { ready_queue }, Runtime::spawn, Runtime::run, Task::poll,      *)
(* Delay::new and <Delay as Future>::poll, driven by a caller that spawns  *)
(* futures and calls run().                                                *)
(*                                                                         *)
(* The clock (get_time, a syscall) is external: the model only sees it at  *)
(* the reads the program makes, and each read returns a value that is not  *)
(* below the previous one.                                                 *)
(***************************************************************************)
EXTENDS Integers, Sequences, FiniteSets, TLC

\* ------------------------------------------------------------------ bounds
MaxSpawns == 2      \* spawn calls in one behaviour
MaxRuns == 2        \* run() calls in one behaviour
MaxTime == 1300     \* largest clock reading
MaxK == 2           \* largest resumption count of a counting future
MaxWakers == 1      \* Waker clones alive at one time
MaxTasks == 3       \* spawn calls in one behaviour where only the order of turns is studied

\* Amounts by which the clock may have advanced between two consecutive reads.
Steps == {0, 100, 300}

\* The same in main, where run() spins over five tasks and reads the clock often.
MainSteps == {0, 100}

\* usize arithmetic of `get_time() as usize + ms` (a 16-bit word stands for usize).
UsizeMod == 2 ^ 16

\* ----------------------------------------------------------------- futures
\* A future is the state machine behind `Pin<Box<dyn Future<Output = ()>>>`.
\*   kind "delays": an async fn awaiting Delay::new(offs[1]), Delay::new(offs[2]), ...
\*                  in sequence; idx is the await it stands at, st = "start" before the
\*                  Delay of that await exists, "await" once it exists (target_time set).
\*   kind "count" : a future that is Pending on k-1 resumptions and Ready on the k-th.
\*   kind "never" : a future that is Pending on every resumption.
\* born is the clock reading Delay::new made (kept beside target_time for the claims).
DelayFut(offs) ==
    [kind |-> "delays", offs |-> offs, idx |-> 1, st |-> "start",
     target_time |-> 0, born |-> 0, k |-> 0]

CountFut(n) ==
    [kind |-> "count", offs |-> <<>>, idx |-> 1, st |-> "start",
     target_time |-> 0, born |-> 0, k |-> n]

NeverFut ==
    [kind |-> "never", offs |-> <<>>, idx |-> 1, st |-> "start",
     target_time |-> 0, born |-> 0, k |-> 0]

multi_delay_task == DelayFut(<<100, 300, 400>>)
task_chain == DelayFut(<<300, 400, 500>>)
concurrent_task_1 == DelayFut(<<1000>>)
concurrent_task_2 == DelayFut(<<300>>)
concurrent_task_3 == DelayFut(<<600>>)

\* The println! lines of an async fn of delays: element i holds the lines written
\* before its i-th Delay::new, the last element the lines written after its last
\* await.  Futures that are not one of the example tasks write nothing.
println(f) ==
    CASE f.offs = multi_delay_task.offs ->
            << <<"multi delay task started">>, <<"after first delay">>,
               <<"after second delay">>, <<"multi delay task completed">> >>
      [] f.offs = task_chain.offs ->
            << <<"task A started">>, <<"task A completed", "task B started">>,
               <<"task B completed", "task C started">>, <<"task C completed">> >>
      [] f.offs = concurrent_task_1.offs ->
            << <<"concurrent task 1 started">>, <<"concurrent task 1 completed">> >>
      [] f.offs = concurrent_task_2.offs ->
            << <<"concurrent task 2 started">>, <<"concurrent task 2 completed">> >>
      [] f.offs = concurrent_task_3.offs ->
            << <<"concurrent task 3 started">>, <<"concurrent task 3 completed">> >>
      [] OTHER -> [i \in 1..(Len(f.offs) + 1) |-> <<>>]

\* A clock is "slow" in a run while no two consecutive reads are further apart than
\* a third of the difference between the two concurrent delays.
SlowGap == (concurrent_task_3.offs[1] - concurrent_task_2.offs[1]) \div 3

\* The futures the caller may hand to spawn.
Futures ==
    {concurrent_task_2, concurrent_task_3, NeverFut}
        \cup {CountFut(n) : n \in 1..MaxK}

\* The futures the caller may hand to spawn where only the order of turns is studied.
TurnFutures == {NeverFut} \cup {CountFut(n) : n \in 1..MaxK}

\* The futures main hands to spawn, in the order of its spawn calls.
main_tasks ==
    <<multi_delay_task, task_chain, concurrent_task_1, concurrent_task_2,
      concurrent_task_3>>

\* An async fn awaiting Delay::new(usize::MAX).
max_delay_task == DelayFut(<<UsizeMod - 1>>)

\* The futures the caller may hand to spawn where the whole range of usize is studied.
WideFutures == {max_delay_task, concurrent_task_2}

\* The futures the caller may hand to spawn where the chain of delays is studied.
ChainFutures == {task_chain, concurrent_task_2}

\* ------------------------------------------------------------------- state
VARIABLES
    ready_queue,    \* Runtime.ready_queue: sequence of Task [id, uid, future]
    task,           \* run()'s local `task`: <<>> or <<the task being polled>>
    pc,             \* "main": in the caller; "loop": at run()'s while-let; "poll": in task.poll
    time,           \* the last value get_time() returned
    nextUid,        \* number of spawn calls so far + 1 (uid names a Task object)
    hist,           \* per Task object (by uid): what happened to it
    run,            \* bookkeeping of the current / last run() call
    lastDelay,      \* the last <Delay as Future>::poll call of the last resumption
    console,        \* the lines println! has written, in order
    waker           \* clones: the Wakers cloned from a waker of run() and still alive

vars == <<ready_queue, task, pc, time, nextUid, hist, run, lastDelay, console, waker>>

Min(a, b) == IF a < b THEN a ELSE b

UidsOf(q) == {q[i].uid : i \in 1..Len(q)}

\* ------------------------------------------------------- pure program parts
\* Faulty variant: spawn reachable while run() is executing
CanSpawn_Anytime == TRUE

\* spawn takes `&mut self`, which run() holds from its call to its return: spawn
\* can be called only from the code that owns the Runtime, outside run().
CanSpawn == pc = "main"

\* Faulty variant: a wake that queues the task being resumed once more
no_op_Requeue(q, t) == q \o t

\* `unsafe fn no_op(_: *const ()) {}`, the wake, wake_by_ref and drop entries of
\* DUMMY_WAKER_VTABLE: the ready queue q after the call, t being run()'s `task`.
no_op(q, t) == q

\* Faulty variant: a runtime born with an idle task already queued
Runtime_new_Seeded == <<[id |-> 0, uid |-> 0, future |-> CountFut(1)]>>

\* Runtime::new
Runtime_new == <<>>

\* Faulty variant: ids counted from one
NewId_FromOne(q) == Len(q) + 1

\* id: self.ready_queue.len()
NewId(q) == Len(q)

\* Faulty variant: spawn pushes to the front
SpawnPush_Front(q, t) == <<t>> \o q

\* self.ready_queue.push_back(task) in spawn
SpawnPush(q, t) == Append(q, t)

\* Faulty variant: a pending task is pushed twice
PushBack_Twice(q, t) == Append(Append(q, t), t)

\* Faulty variant: a pending task goes back to the head of the queue
PushBack_Front(q, t) == <<t>> \o q

\* self.ready_queue.push_back(task) in run
PushBack(q, t) == Append(q, t)

\* Faulty variant: every polled task is put back, finished or not
Requeued_Always(res) == res \in {"Pending", "Ready"}

\* Faulty variant: the branch is taken on Ready instead of Pending
Requeued_OnReady(res) == res = "Ready"

\* `if let Poll::Pending = task.poll(..)`: the task goes back to the queue
Requeued(res) == res = "Pending"

\* Faulty variant: the loop stops with one task left
LoopEnds_OneLeft(q) == Len(q) <= 1

\* `while let Some(mut task) = self.ready_queue.pop_front()`: the loop ends on None
LoopEnds(q) == q = <<>>

\* Faulty variant: the offset is dropped
Delay_new_NoOffset(now, ms) == now % UsizeMod

\* Delay::new: target_time = get_time() as usize + ms
Delay_new(now, ms) == (now + ms) % UsizeMod

\* `get_time() as usize + ms` leaves the range of usize.
Overflows(now, ms) == now + ms >= UsizeMod

\* Faulty variant: strict comparison
Delay_poll_Strict(now, target) == IF now > target THEN "Ready" ELSE "Pending"

\* <Delay as Future>::poll: get_time() as usize >= self.target_time
Delay_poll(now, target) == IF now >= target THEN "Ready" ELSE "Pending"

\* get_time(): the values the next read of the clock may return
get_time == {t \in time..MaxTime : (t - time) \in Steps}

\* ----------------------------------------------------------------- history
NoDelay == [born |-> 0, off |-> 0, seen |-> 0, res |-> "None"]

\* The uids a behaviour can hand out: one per spawn call.
MaxOf(S) == CHOOSE x \in S : \A y \in S : y <= x

Uids == 1..MaxOf({MaxSpawns, MaxTasks, Len(main_tasks)})

ZeroSince == [u \in Uids |-> 0]

NewHist(f, id) ==
    [prog |-> f, id |-> id, run |-> 0, start |-> -1, done |-> -1, finished |-> FALSE,
     log |-> <<>>, polled |-> FALSE, since |-> ZeroSince, qAt |-> {}]

\* What is remembered of a Task object once the step after its last poll is taken.
Forgotten(h) ==
    [h EXCEPT !.start = -1, !.done = -1, !.log = <<>>, !.since = ZeroSince, !.qAt = {}]

\* The history with the details of the finished tasks dropped.
Settled ==
    [u \in DOMAIN hist |-> IF hist[u].finished THEN Forgotten(hist[u]) ELSE hist[u]]

\* Task A is popped for a resumption: A's view of the round restarts, and every
\* task still waiting in the queue counts one more resumption of A.
HistPop(A, rest) ==
    [u \in DOMAIN hist |->
        IF u = A
        THEN [hist[u] EXCEPT !.polled = TRUE, !.since = ZeroSince, !.qAt = UidsOf(rest)]
        ELSE IF u \in UidsOf(rest)
             THEN [hist[u] EXCEPT !.since[A] = Min(2, @ + 1)]
             ELSE Settled[u]]

\* Sum of the resumption counts k of the counting futures among the tasks S.
RECURSIVE SumK(_)
SumK(S) == IF S = {} THEN 0
           ELSE LET u == CHOOSE x \in S : TRUE IN hist[u].prog.k + SumK(S \ {u})

\* run.polls counts the resumptions of a run; it stops counting one above SumK.
PollCap == SumK(run.uids) + 1

Init ==
    /\ ready_queue = Runtime_new
    /\ task = <<>>
    /\ pc = "main"
    /\ time = 0
    /\ nextUid = 1
    /\ hist = <<>>
    /\ run = [calls |-> 0, returned |-> 0, uids |-> {}, spawned |-> 0, n |-> 0,
              polls |-> 0, read |-> FALSE, slow |-> TRUE]
    /\ lastDelay = NoDelay
    /\ console = <<>>
    /\ waker = [clones |-> 0]

\* ----------------------------------------------------------------- actions
\* Runtime::spawn(future), called by the owner of the Runtime (never during run():
\* run holds &mut self).
SpawnTask(f) ==
    /\ CanSpawn
    /\ LET t == [id |-> NewId(ready_queue), uid |-> nextUid, future |-> f]
       IN /\ ready_queue' = SpawnPush(ready_queue, t)
          /\ hist' = Append(hist, NewHist(f, t.id))
    /\ nextUid' = nextUid + 1
    /\ run' = [run EXCEPT !.spawned = @ + 1]
    /\ UNCHANGED <<task, pc, time, lastDelay, console, waker>>

\* A spawn call of the caller, one of at most MaxSpawns.
spawn(f) ==
    /\ nextUid <= MaxSpawns
    /\ SpawnTask(f)

\* The caller enters Runtime::run.
RunCall ==
    /\ pc = "main"
    /\ run.calls < MaxRuns
    /\ pc' = "loop"
    /\ run' = [run EXCEPT !.calls = @ + 1, !.uids = UidsOf(ready_queue),
                          !.n = run.spawned,
                          !.polls = 0, !.read = FALSE, !.slow = TRUE]
    /\ hist' = [u \in DOMAIN hist |->
                  IF u \in UidsOf(ready_queue) THEN [hist[u] EXCEPT !.run = run.calls + 1]
                  ELSE hist[u]]
    /\ UNCHANGED <<ready_queue, task, time, nextUid, lastDelay, console, waker>>

\* while let Some(mut task) = self.ready_queue.pop_front(): Some
PopFront ==
    /\ pc = "loop"
    /\ ~LoopEnds(ready_queue)
    /\ task' = <<Head(ready_queue)>>
    /\ ready_queue' = Tail(ready_queue)
    /\ pc' = "poll"
    /\ hist' = HistPop(Head(ready_queue).uid, Tail(ready_queue))
    /\ run' = [run EXCEPT !.polls = Min(PollCap, @ + 1)]
    /\ lastDelay' = NoDelay
    /\ UNCHANGED <<time, nextUid, console, waker>>

\* while let ... = self.ready_queue.pop_front(): None, run() returns
LoopExit ==
    /\ pc = "loop"
    /\ LoopEnds(ready_queue)
    /\ pc' = "main"
    /\ run' = [run EXCEPT !.returned = @ + 1, !.spawned = 0]
    /\ hist' = Settled
    /\ UNCHANGED <<ready_queue, task, time, nextUid, lastDelay, console, waker>>

\* task.poll returned res with the future left as f; `seen` is the clock reading of
\* the resumption's last read (-1: the resumption read no clock).
PollReturns(res, f, seen) ==
    LET t == [task[1] EXCEPT !.future = f]
    IN /\ ready_queue' = IF Requeued(res) THEN PushBack(ready_queue, t) ELSE ready_queue
       /\ task' = <<>>
       /\ pc' = "loop"
       /\ hist' = IF res = "Ready"
                  THEN [hist EXCEPT ![t.uid].finished = TRUE, ![t.uid].done = seen]
                  ELSE hist

\* A counting future is resumed.
CountPoll ==
    /\ pc = "poll"
    /\ task[1].future.kind = "count"
    /\ LET f == task[1].future
       IN IF f.k <= 1
          THEN PollReturns("Ready", f, -1)
          ELSE PollReturns("Pending", [f EXCEPT !.k = @ - 1], -1)
    /\ UNCHANGED <<time, nextUid, run, lastDelay, console, waker>>

\* A future that never completes is resumed.
NeverPoll ==
    /\ pc = "poll"
    /\ task[1].future.kind = "never"
    /\ PollReturns("Pending", task[1].future, -1)
    /\ UNCHANGED <<time, nextUid, run, lastDelay, console, waker>>

\* Inside a resumption of an async fn: `Delay::new(ms)` of the await it stands at.
DelayNewAt(reads) ==
    /\ pc = "poll"
    /\ task[1].future.kind = "delays"
    /\ task[1].future.st = "start"
    /\ \E now \in reads :
        LET t == task[1]
            f == t.future
            ms == f.offs[f.idx]
        IN /\ time' = now
           /\ task' = <<[t EXCEPT !.future.st = "await",
                                  !.future.target_time = Delay_new(now, ms),
                                  !.future.born = now]>>
           /\ hist' = [hist EXCEPT ![t.uid].start = IF @ = -1 THEN now ELSE @,
                                   ![t.uid].log = Append(@, <<"new", ms>>)]
           /\ run' = [run EXCEPT !.read = TRUE,
                                 !.slow = @ /\ (now - time <= SlowGap)]
           /\ console' = console \o println(f)[f.idx]
    /\ UNCHANGED <<ready_queue, pc, nextUid, lastDelay, waker>>

DelayNew == DelayNewAt(get_time)

\* Delay::new where `get_time() as usize + ms` overflows and the build checks
\* arithmetic overflow (debug profile): the addition panics and the program is
\* aborted inside the resumption.  In a build without the checks the sum wraps,
\* which is what Delay_new computes in DelayNew.
DelayNewPanics ==
    /\ pc = "poll"
    /\ task[1].future.kind = "delays"
    /\ task[1].future.st = "start"
    /\ \E now \in get_time :
        LET f == task[1].future
        IN /\ Overflows(now, f.offs[f.idx])
           /\ time' = now
           /\ console' = console \o println(f)[f.idx]
    /\ pc' = "panicked"
    /\ UNCHANGED <<ready_queue, task, nextUid, hist, run, lastDelay, waker>>

\* Inside a resumption of an async fn: `.await` polls the Delay it stands at.
\* Pending suspends the task; Ready moves on to the next statement, which is the
\* next Delay::new or the end of the async fn.
DelayPollAt(reads) ==
    /\ pc = "poll"
    /\ task[1].future.kind = "delays"
    /\ task[1].future.st = "await"
    /\ \E now \in reads :
        LET t == task[1]
            f == t.future
            ms == f.offs[f.idx]
            res == Delay_poll(now, f.target_time)
            logged == [hist EXCEPT ![t.uid].log = Append(@, <<"ready", ms>>)]
        IN /\ time' = now
           /\ lastDelay' = [born |-> f.born, off |-> ms, seen |-> now, res |-> res]
           /\ run' = [run EXCEPT !.read = TRUE,
                                 !.slow = @ /\ (now - time <= SlowGap)]
           /\ console' = IF res = "Ready" /\ f.idx = Len(f.offs)
                         THEN console \o println(f)[f.idx + 1] ELSE console
           /\ IF res = "Pending"
              THEN PollReturns("Pending", f, now)
              ELSE IF f.idx = Len(f.offs)
                   THEN /\ ready_queue' = IF Requeued("Ready")
                                          THEN PushBack(ready_queue, t) ELSE ready_queue
                        /\ task' = <<>>
                        /\ pc' = "loop"
                        /\ hist' = [logged EXCEPT ![t.uid].finished = TRUE,
                                                  ![t.uid].done = now]
                   ELSE /\ task' = <<[t EXCEPT !.future.idx = @ + 1,
                                               !.future.st = "start"]>>
                        /\ hist' = logged
                        /\ UNCHANGED <<ready_queue, pc>>
    /\ UNCHANGED <<nextUid, waker>>

DelayPoll == DelayPollAt(get_time)

\* --- the waker of run(): DUMMY_WAKER_VTABLE = (dummy_clone, no_op, no_op, no_op)
\* A Waker can be called on while a resumption holds the Context, and for as long
\* as a clone of it is alive.
WakerAtHand == pc = "poll" \/ waker.clones > 0

\* Waker::clone -> dummy_clone: one more Waker on the same vtable.
waker_clone ==
    /\ WakerAtHand
    /\ waker.clones < MaxWakers
    /\ waker' = [waker EXCEPT !.clones = @ + 1]
    /\ UNCHANGED <<ready_queue, task, pc, time, nextUid, hist, run, lastDelay, console>>

\* Waker::wake(self) -> no_op: the call consumes the clone it is made on.
waker_wake ==
    /\ waker.clones > 0
    /\ ready_queue' = no_op(ready_queue, task)
    /\ waker' = [waker EXCEPT !.clones = @ - 1]
    /\ UNCHANGED <<task, pc, time, nextUid, hist, run, lastDelay, console>>

\* Waker::wake_by_ref(&self) -> no_op.
waker_wake_by_ref ==
    /\ WakerAtHand
    /\ ready_queue' = no_op(ready_queue, task)
    /\ UNCHANGED <<task, pc, time, nextUid, hist, run, lastDelay, console, waker>>

\* drop(Waker) -> no_op.
waker_drop ==
    /\ waker.clones > 0
    /\ ready_queue' = no_op(ready_queue, task)
    /\ waker' = [waker EXCEPT !.clones = @ - 1]
    /\ UNCHANGED <<task, pc, time, nextUid, hist, run, lastDelay, console>>

WakerCall == waker_clone \/ waker_wake \/ waker_wake_by_ref \/ waker_drop

Next ==
    \/ \E f \in Futures : spawn(f)
    \/ RunCall
    \/ PopFront
    \/ LoopExit
    \/ CountPoll
    \/ NeverPoll
    \/ DelayNew
    \/ DelayPoll

Spec == Init /\ [][Next]_vars

\* The steps of run(): once called, the single thread keeps executing it.
RunStep == PopFront \/ LoopExit \/ CountPoll \/ NeverPoll \/ DelayNew \/ DelayPoll

SpecFair == Init /\ [][Next]_vars /\ WF_vars(RunStep)

\* The runtime with futures (or anyone they hand a clone to) calling on the waker.
NextWaker ==
    \/ Next
    \/ waker_clone
    \/ waker_wake
    \/ waker_wake_by_ref
    \/ waker_drop

SpecWaker == Init /\ [][NextWaker]_vars

\* The runtime with up to MaxTasks tasks that take their turns without a clock.
NextTurns ==
    \/ \E f \in TurnFutures : nextUid <= MaxTasks /\ SpawnTask(f)
    \/ RunCall
    \/ PopFront
    \/ LoopExit
    \/ CountPoll
    \/ NeverPoll

SpecTurns == Init /\ [][NextTurns]_vars

SpecTurnsFair == Init /\ [][NextTurns]_vars /\ WF_vars(RunStep)

\* The runtime with delays over the whole range of usize; both outcomes of an
\* overflowing addition (wrap, panic) are possible, depending on the build.
NextWide ==
    \/ \E f \in WideFutures : spawn(f)
    \/ RunCall
    \/ PopFront
    \/ LoopExit
    \/ DelayNew
    \/ DelayNewPanics
    \/ DelayPoll

SpecWide == Init /\ [][NextWide]_vars

\* --- fn main
\* The largest target_time of the Delays that exist (0 when there is none).
Horizon ==
    LET held == task \o ready_queue
    IN MaxOf({0} \cup {held[i].future.target_time :
                         i \in {j \in 1..Len(held) : held[j].future.st = "await"}})

\* get_time() in main: the clock is followed up to the first reading at or beyond
\* Horizon.  Such a reading stands for every later one: all Delays that exist
\* compare alike with them, and a Delay made afterwards sees only differences.
main_get_time == {time + d : d \in {s \in MainSteps : s = 0 \/ time < Horizon}}

\* rt.spawn(multi_delay_task()); ... rt.spawn(concurrent_task_3());
MainSpawn ==
    /\ run.calls = 0
    /\ nextUid <= Len(main_tasks)
    /\ SpawnTask(main_tasks[nextUid])

\* rt.run();
MainRun ==
    /\ nextUid = Len(main_tasks) + 1
    /\ run.calls = 0
    /\ RunCall

MainDelayNew == DelayNewAt(main_get_time)

MainDelayPoll == DelayPollAt(main_get_time)

\* println!("All tasks completed!"); 0
MainPrintln ==
    /\ pc = "main"
    /\ run.returned = 1
    /\ console' = Append(console, "All tasks completed!")
    /\ pc' = "exit"
    /\ UNCHANGED <<ready_queue, task, time, nextUid, hist, run, lastDelay, waker>>

NextMain ==
    \/ MainSpawn
    \/ MainRun
    \/ PopFront
    \/ LoopExit
    \/ MainDelayNew
    \/ MainDelayPoll
    \/ MainPrintln

SpecMain == Init /\ [][NextMain]_vars

\* A read of the clock that returns more than the read before it.
MainTick == (MainDelayNew \/ MainDelayPoll) /\ time' > time

\* main is the only thread and keeps executing; the clock keeps advancing while
\* run() spins, so of the reads run() makes, infinitely many return a larger value
\* for as long as a Delay has its target ahead.
SpecMainFair ==
    Init /\ [][NextMain]_vars /\ WF_vars(NextMain) /\ SF_vars(MainTick)

\* The runtime with task_chain among its tasks.
NextChain ==
    \/ \E f \in ChainFutures : spawn(f)
    \/ RunCall
    \/ PopFront
    \/ LoopExit
    \/ DelayNew
    \/ DelayPoll

SpecChain == Init /\ [][NextChain]_vars

\* ================================================================== claims
Held == UidsOf(ready_queue) \cup UidsOf(task)

AllCount(S) == \A u \in S : hist[u].prog.kind = "count"

Returned == pc = "main" /\ run.calls > 0

\* C1: when every task of a run is a counting future (Pending on k-1 resumptions,
\* Ready on the k-th), run() returns, it has then performed exactly the sum of the
\* k resumptions and the ready queue is empty; and whatever the tasks are, run()
\* has not returned while one of its tasks has not reported Ready.
C1_RunEndsAfterSumOfResumptions ==
    /\ [](Returned =>
            /\ \A u \in run.uids : hist[u].finished
            /\ AllCount(run.uids) =>
                  /\ run.polls = SumK(run.uids)
                  /\ Len(ready_queue) = run.spawned)
    /\ []((pc # "main" /\ AllCount(run.uids)) => run.polls <= SumK(run.uids))
    /\ ((pc = "loop" /\ AllCount(run.uids)) ~> (pc = "main"))

C1_Witness ==
    /\ Returned
    /\ Cardinality(run.uids) = 2
    /\ AllCount(run.uids)
    /\ run.polls = 2 * MaxK
    /\ ready_queue = <<>>

\* C2: at the loop head, every task that was waiting in the queue when the head task
\* was last resumed has been resumed exactly once since, and no task waiting in the
\* queue has seen another task resumed twice since its own last resumption.
C2_RoundRobin ==
    (pc = "loop" /\ ready_queue # <<>>) =>
        /\ LET A == Head(ready_queue).uid
           IN hist[A].polled => \A B \in hist[A].qAt : hist[A].since[B] = 1
        /\ \A A \in UidsOf(ready_queue) : \A B \in 1..MaxSpawns : hist[A].since[B] <= 1

C2_Witness ==
    /\ pc = "loop"
    /\ Len(ready_queue) >= 2
    /\ LET A == Head(ready_queue).uid
       IN /\ hist[A].polled
          /\ hist[A].qAt = UidsOf(Tail(ready_queue))
          /\ \A B \in hist[A].qAt : hist[B].polled /\ hist[B].qAt = {A}

\* C3: no task held by the runtime (in the ready queue or being polled) has already
\* returned Ready.
C3_ReadyNeverResumed ==
    \A u \in Held : ~hist[u].finished

C3_Witness ==
    /\ pc = "poll"
    /\ hist[task[1].uid].polled
    /\ \E u \in DOMAIN hist : hist[u].finished /\ hist[u].run = run.calls

\* C4: a poll of a Delay made by Delay::new(off) at clock reading born returns Ready
\* exactly when the reading it makes is at least born + off.
C4_DelayReadyIffTargetReached ==
    lastDelay.res # "None" =>
        (lastDelay.res = "Ready" <=> lastDelay.seen >= lastDelay.born + lastDelay.off)

C4_Witness ==
    /\ lastDelay.res = "Ready"
    /\ lastDelay.born > 0
    /\ lastDelay.seen = lastDelay.born + lastDelay.off

StartedAt(u) == hist[u].start

\* The run's tasks are exactly a concurrent_task_2 (a) and a concurrent_task_3 (b).
TwoConcurrent(a, b) ==
    /\ run.uids = {a, b}
    /\ hist[a].prog = concurrent_task_2
    /\ hist[b].prog = concurrent_task_3

\* C5 (as claimed): in a run of exactly a 300 ms task and a 600 ms task, in either
\* spawn order and under any non-decreasing clock, the 600 ms task has not reported
\* Ready unless the 300 ms task already has.
C5_ShortDelayFirst_AnyClock ==
    \A a, b \in DOMAIN hist :
        (TwoConcurrent(a, b) /\ hist[b].finished) => hist[a].finished

\* C5 (amended): the same (either spawn order), provided no two consecutive clock
\* reads of the run are more than 100 apart.
C5_ShortDelayFirst_SlowClock ==
    \A a, b \in DOMAIN hist :
        (TwoConcurrent(a, b) /\ hist[b].finished /\ run.slow) => hist[a].finished

C5_Witness ==
    \E a, b \in DOMAIN hist :
        /\ TwoConcurrent(a, b)
        /\ b < a
        /\ run.slow
        /\ hist[a].finished /\ hist[b].finished
        /\ hist[b].done = StartedAt(b) + 600

IsPrefix(s, t) == Len(s) <= Len(t) /\ \A i \in 1..Len(s) : s[i] = t[i]

ChainLog ==
    << <<"new", 300>>, <<"ready", 300>>, <<"new", 400>>, <<"ready", 400>>,
       <<"new", 500>>, <<"ready", 500>> >>

\* C6: a task_chain task creates and completes its Delays in the order 300, 400, 500
\* (each Delay is created only after the previous one returned Ready), and it reports
\* Ready only at a clock reading at least 1200 above the reading of its first
\* resumption (done is the reading at which it reported Ready, kept until the
\* loop's next step).
C6_ChainTakes1200 ==
    \A u \in DOMAIN hist :
        hist[u].prog = task_chain =>
            /\ IsPrefix(hist[u].log, ChainLog)
            /\ (hist[u].finished /\ hist[u].done # -1) =>
                  /\ hist[u].log = ChainLog
                  /\ hist[u].done >= StartedAt(u) + 1200

C6_Witness ==
    \E u \in DOMAIN hist :
        /\ hist[u].prog = task_chain
        /\ hist[u].finished
        /\ hist[u].done = StartedAt(u) + 1200
        /\ StartedAt(u) > 0

\* A task whose future is Pending on every resumption, handed to the current run.
Stalled(u) ==
    /\ u \in DOMAIN hist
    /\ hist[u].prog.kind = "never"
    /\ hist[u].run # 0

\* C7: once run() is called with a task that is Pending on every resumption, run()
\* does not return and reaches no other state than its loop head and a poll: that
\* task stays held by the runtime, the loop head never finds the queue empty, and
\* the task is resumed again and again.
C7_StalledTaskSpinsForever ==
    /\ [](\A u \in DOMAIN hist : Stalled(u) =>
            /\ pc \in {"loop", "poll"}
            /\ run.returned < hist[u].run
            /\ u \in Held
            /\ ~hist[u].finished
            /\ pc = "loop" => (ready_queue # <<>> /\ ENABLED PopFront /\ ~ENABLED LoopExit))
    /\ \A u \in 1..MaxSpawns :
          [](Stalled(u) => <>(pc = "poll" /\ task[1].uid = u))

C7_Witness ==
    \E u, v \in DOMAIN hist :
        /\ Stalled(u)
        /\ hist[v].finished /\ hist[v].run = hist[u].run
        /\ pc = "poll" /\ task[1].uid = u
        /\ hist[u].polled /\ hist[u].since[u] = 0 /\ hist[u].qAt = {}
        /\ run.polls = PollCap

\* C8: a run() entered with no task spawned resumes no task, reads no clock, can only
\* return, and leaves the ready queue empty.
C8_EmptyRunReturnsAtOnce ==
    (run.calls > 0 /\ run.n = 0) =>
        /\ pc \in {"loop", "main"}
        /\ run.polls = 0
        /\ ~run.read
        /\ task = <<>>
        /\ pc = "loop" => (ready_queue = <<>> /\ ENABLED LoopExit /\ ~ENABLED PopFront)
        /\ pc = "main" => Len(ready_queue) = run.spawned

C8_Witness ==
    /\ run.calls = 1 /\ run.n = 0
    /\ pc = "main"
    /\ run.returned = 1
    /\ ready_queue = <<>>
    /\ time = 0

\* C9: a spawn call appends exactly one Task to the ready queue, whose id is the
\* queue length before the call and whose future has not been resumed; the tasks
\* already queued are unchanged, in the same order, and nothing is resumed.
C9_SpawnAppendsOne ==
    [][nextUid' # nextUid =>
        /\ Len(ready_queue') = Len(ready_queue) + 1
        /\ SubSeq(ready_queue', 1, Len(ready_queue)) = ready_queue
        /\ ready_queue'[Len(ready_queue')].id = Len(ready_queue)
        /\ ready_queue'[Len(ready_queue')].uid = nextUid
        /\ ready_queue'[Len(ready_queue')].future \in Futures
        /\ ~hist'[nextUid].polled
        /\ \A u \in DOMAIN hist : hist'[u] = hist[u]
        /\ run'.polls = run.polls
        /\ UNCHANGED <<task, pc, time>>]_vars

C9_Witness ==
    /\ pc = "main"
    /\ run.returned = 1
    /\ Len(ready_queue) = 2
    /\ ready_queue[1].id = 0 /\ ready_queue[2].id = 1
    /\ ready_queue[2].uid = nextUid - 1
    /\ \A i \in 1..2 : ~hist[ready_queue[i].uid].polled

\* C10 (as claimed): no two Tasks ever created by the Runtime have the same id.
C10_IdsUniqueEver ==
    \A u, v \in DOMAIN hist : u # v => hist[u].id # hist[v].id

\* C11: the waker is inert.  A call of wake, wake_by_ref, clone or drop on it, at
\* any point and any number of times, leaves the ready queue, the task being
\* resumed, every task's future and the position of run() as they were; the ready
\* queue changes only in steps of the run loop or of spawn.  The resumptions run()
\* performs are therefore those it performs without such calls.
C11_WakerInert ==
    /\ [][WakerCall =>
            UNCHANGED <<ready_queue, task, pc, time, nextUid, hist, run, lastDelay,
                        console>>]_vars
    /\ [][ready_queue' # ready_queue => (pc' # pc \/ nextUid' # nextUid)]_vars

\* A clone made during a resumption is still alive, and can be woken, after that
\* resumption has ended and a later one is under way with a task waiting.
C11_Witness ==
    /\ waker.clones > 0
    /\ pc = "poll"
    /\ ready_queue # <<>>
    /\ hist[ready_queue[Len(ready_queue)].uid].polled

\* C12: one resumption at a time.  At most one task is being resumed, and only
\* inside a resumption; the ready queue changes only by the run loop's pop_front
\* that starts a resumption, by its push_back of the task whose resumption returned
\* Pending, and by spawn outside run(); no step inside a resumption touches the
\* queue, and no spawn happens between the call and the return of run().
C12_OneResumeAtATime ==
    /\ [](Len(task) <= 1 /\ (pc = "poll" <=> task # <<>>))
    /\ [][ready_queue' # ready_queue =>
            \/ /\ pc = "loop" /\ pc' = "poll"
               /\ task' = <<Head(ready_queue)>>
               /\ ready_queue' = Tail(ready_queue)
            \/ /\ pc = "poll" /\ pc' = "loop"
               /\ task' = <<>>
               /\ Len(ready_queue') = Len(ready_queue) + 1
               /\ SubSeq(ready_queue', 1, Len(ready_queue)) = ready_queue
               /\ ready_queue'[Len(ready_queue')].uid = task[1].uid
               /\ ~hist'[task[1].uid].finished
            \/ /\ pc = "main" /\ pc' = "main"
               /\ nextUid' = nextUid + 1
               /\ Len(ready_queue') = Len(ready_queue) + 1
               /\ SubSeq(ready_queue', 1, Len(ready_queue)) = ready_queue
               /\ ready_queue'[Len(ready_queue')].uid = nextUid]_vars
    /\ [][(pc = "poll" /\ pc' = "poll") => ready_queue' = ready_queue]_vars
    /\ [][nextUid' # nextUid => (pc = "main" /\ pc' = "main")]_vars

\* A resumption has returned Pending behind a waiting task: popped, pushed back.
C12_Witness ==
    /\ pc = "loop"
    /\ Len(ready_queue) = 2
    /\ hist[ready_queue[2].uid].polled
    /\ ~hist[ready_queue[1].uid].polled

\* How many times the Task object u is held: queue positions plus run()'s `task`.
Holdings(u) ==
    Cardinality({i \in 1..Len(ready_queue) : ready_queue[i].uid = u})
        + Cardinality({i \in 1..Len(task) : task[i].uid = u})

\* C13: no task is duplicated or lost.  Every spawned task that has not reported
\* Ready is held exactly once, at one queue position or as the task being resumed;
\* a task that has reported Ready is held nowhere; a resumption that returns
\* Pending puts its task at the tail of the queue and one that returns Ready
\* leaves the queue as it was.
C13_HeldExactlyOnce ==
    /\ [](\A u \in DOMAIN hist : Holdings(u) = IF hist[u].finished THEN 0 ELSE 1)
    /\ [][(pc = "poll" /\ pc' = "loop") =>
            IF hist'[task[1].uid].finished
            THEN ready_queue' = ready_queue
            ELSE /\ SubSeq(ready_queue', 1, Len(ready_queue)) = ready_queue
                 /\ Len(ready_queue') = Len(ready_queue) + 1
                 /\ ready_queue'[Len(ready_queue')].uid = task[1].uid]_vars

\* One task has reported Ready and is gone while the other, resumed, is back in
\* the queue.
C13_Witness ==
    /\ pc = "loop"
    /\ \E u \in run.uids : hist[u].finished
    /\ \E v \in run.uids : hist[v].polled /\ ~hist[v].finished /\ Holdings(v) = 1

\* Task s never completes and every other task of the run is a counting future.
OnlyStalled(s) ==
    /\ pc # "main"
    /\ s \in run.uids
    /\ hist[s].prog.kind = "never"
    /\ \A u \in run.uids \ {s} : hist[u].prog.kind = "count"

\* C17: a stalled task does not starve the others.  With one task that is Pending
\* on every resumption and all others needing finitely many resumptions, the
\* others keep their turn (the stalled task is never resumed twice while another
\* waits), each of them eventually reports Ready and is removed, and from then on
\* the stalled task is the only task held and every resumption is its own.
C17_OthersFinishBesideStalled ==
    /\ [](\A s \in Uids : OnlyStalled(s) =>
            /\ \A u \in UidsOf(ready_queue) : hist[u].since[s] <= 1
            /\ (\A u \in run.uids \ {s} : hist[u].finished) =>
                  /\ Held = {s}
                  /\ pc = "poll" => task[1].uid = s)
    /\ \A s \in Uids :
          OnlyStalled(s) ~> (OnlyStalled(s) /\ Held = {s})

\* The two counting tasks beside the stalled one have finished; the stalled one
\* is being resumed alone.
C17_Witness ==
    \E s \in run.uids :
        /\ OnlyStalled(s)
        /\ Cardinality(run.uids) >= 3
        /\ Held = {s}
        /\ pc = "poll"
        /\ \E u \in run.uids : hist[u].prog.kind = "count" /\ hist[u].prog.k = MaxK

UidSeq(q) == [i \in 1..Len(q) |-> q[i].uid]

\* The members of S in spawn order (uids are handed out in spawn order).
RECURSIVE SpawnOrder(_)
SpawnOrder(S) ==
    IF S = {} THEN <<>>
    ELSE LET m == CHOOSE x \in S : \A y \in S : x <= y
         IN <<m>> \o SpawnOrder(S \ {m})

IsRotation(s, t) ==
    /\ Len(s) = Len(t)
    /\ \/ Len(s) = 0
       \/ \E k \in 0..(Len(s) - 1) :
            \A i \in 1..Len(s) : s[i] = t[((i + k - 1) % Len(t)) + 1]

\* C18: cyclic order is kept.  While run() executes, the task being resumed
\* followed by the ready queue is a rotation of the spawn order of the unfinished
\* tasks; a task is first resumed only after every task spawned before it, and at
\* the loop head no task already resumed stands before one not yet resumed, so all
\* first resumptions come before any second one.
C18_CyclicSpawnOrder ==
    pc # "main" =>
        /\ IsRotation(UidSeq(task \o ready_queue),
                      SpawnOrder({u \in run.uids : ~hist[u].finished}))
        /\ \A a, b \in run.uids : (a < b /\ hist[b].polled) => hist[a].polled
        /\ pc = "loop" =>
              \A i, j \in 1..Len(ready_queue) :
                  (i < j /\ hist[ready_queue[i].uid].polled)
                      => hist[ready_queue[j].uid].polled

\* Three tasks were spawned, the second has reported Ready, and the third is
\* being resumed a second time with the first one queued behind it.
C18_Witness ==
    /\ pc = "poll"
    /\ Cardinality(run.uids) >= 3
    /\ Len(ready_queue) = 1
    /\ task[1].uid > ready_queue[1].uid + 1
    /\ hist[ready_queue[1].uid].since[task[1].uid] = 1

\* C19: ids of live tasks are distinct.  The tasks held (queued or being resumed)
\* have pairwise distinct ids in every reachable state, and whenever the caller
\* is outside run(), so right after any spawn, the ids in the queue are
\* 0, 1, ..., len-1 in queue order.
C19_LiveIdsDistinct ==
    LET held == task \o ready_queue
    IN /\ \A i, j \in 1..Len(held) : held[i].id = held[j].id => i = j
       /\ pc = "main" => \A i \in 1..Len(ready_queue) : ready_queue[i].id = i - 1

\* After a run() has returned, two more tasks have been spawned: their ids start
\* from 0 again and are 0, 1 in queue order.
C19_Witness ==
    /\ pc = "main"
    /\ run.returned >= 1
    /\ Len(ready_queue) = 2
    /\ hist[1].finished

\* A Delay of the held task t exists and its target is the exact sum.
ExactTarget(t) ==
    (t.future.kind = "delays" /\ t.future.st = "await")
        => t.future.target_time = t.future.born + t.future.offs[t.future.idx]

\* C15: Delay::new is total and exact over the range of usize.  No call of
\* Delay::new fails, every Delay that exists has target_time equal to the
\* mathematical sum of the clock reading of its construction and its offset, and
\* no Delay has returned Ready at a clock reading below that sum.
C15_DelayNewTotalAndExact ==
    /\ pc # "panicked"
    /\ \A i \in 1..Len(task) : ExactTarget(task[i])
    /\ \A i \in 1..Len(ready_queue) : ExactTarget(ready_queue[i])
    /\ lastDelay.res = "Ready" => lastDelay.seen >= lastDelay.born + lastDelay.off

\* Task u waits on a Delay whose target the clock has not reached.
TargetAhead(u) ==
    \E i \in 1..Len(task \o ready_queue) :
        LET t == (task \o ready_queue)[i]
        IN /\ t.uid = u
           /\ t.future.st = "await"
           /\ t.future.target_time > time

MainUids == 1..Len(main_tasks)

\* C14: liveness under an advancing clock.  In main, with a clock that never goes
\* back and keeps advancing while run() spins, run() eventually returns with each
\* of the five example tasks having reported Ready and no Delay left with its
\* target ahead; a task reports Ready only through resumptions, and a Delay
\* returns Ready only at a reading that has reached its target, so the target of
\* every Delay of the five tasks is reached on the way.
C14_MainTasksAllComplete ==
    /\ <>(/\ run.returned = 1
          /\ \A u \in MainUids : hist[u].finished /\ ~TargetAhead(u))
    /\ [](lastDelay.res = "Ready" => lastDelay.seen >= lastDelay.born + lastDelay.off)
    /\ [](\A u \in DOMAIN hist : hist[u].finished => hist[u].polled)

\* The last task has just reported Ready, after the longest chain of delays; the
\* loop is about to find the queue empty.
C14_Witness ==
    /\ pc = "loop"
    /\ ready_queue = <<>>
    /\ \A u \in MainUids : hist[u].finished
    /\ time >= 1200
    /\ lastDelay.res = "Ready"

AllTasksCompleted == "All tasks completed!"

\* The positions of console that hold the line s.
LinesOf(s) == {i \in 1..Len(console) : console[i] = s}

\* The last line the async fn f writes.
FinalLine(f) == println(f)[Len(f.offs) + 1][1]

\* C16: the completion message of main.  "All tasks completed!" is written at
\* most once, and once main has ended exactly once; when it is on the console
\* run() has returned, each of the five tasks has reported Ready and has written
\* its final line before it, no task is held, and main is past run() for good, so
\* no task is resumed after it.
C16_CompletionMessageLast ==
    /\ Cardinality(LinesOf(AllTasksCompleted)) <= 1
    /\ pc = "exit" <=> LinesOf(AllTasksCompleted) # {}
    /\ LinesOf(AllTasksCompleted) # {} =>
          /\ console[Len(console)] = AllTasksCompleted
          /\ run.returned = 1
          /\ ready_queue = <<>> /\ task = <<>>
          /\ \A u \in MainUids :
                /\ hist[u].finished
                /\ Cardinality(LinesOf(FinalLine(main_tasks[u]))) = 1

\* main has ended: the seventeen lines are on the console.
C16_Witness ==
    /\ pc = "exit"
    /\ Len(console) = 17
    /\ console[Len(console)] = AllTasksCompleted
    /\ console[Len(console) - 1] = FinalLine(task_chain)

====
